---- MODULE Spec2Model ----
(***************************************************************************)
(* Model of msim/src/modules/rebin.py: rebin1d, rebin_cube_1d, frebin2d.   *)
(*                                                                         *)
(* Numbers are exact rationals <<num, den>> in lowest terms, den > 0.      *)
(* A zero denominator stands for the non-finite results of a float64       *)
(* division by zero: <<0,0>> is nan, <<1,0>> is +inf, <<-1,0>> is -inf.    *)
(* Python indices are kept 0-based; At(s, k) reads s[k].                   *)
(***************************************************************************)
EXTENDS Integers, Sequences, FiniteSets, TLC

(* ------------------------------ bounds -------------------------------- *)
\* input grid coordinates are drawn from 0..MaxCoord, output grid
\* coordinates from 0..MaxCoord+1 (so an output grid may start left of the
\* input grid and end right of it, and grids need not be uniform)
MaxCoord == 3
\* grids have 2..MaxLen points
MaxLen == 3
\* input values are drawn from 0..MaxVal
MaxVal == 1
\* a plane has 1..MaxDim rows and columns and at most MaxPix cells
MaxDim == 3
MaxPix == 4

(* ---------------------------- arithmetic ------------------------------ *)
Abs(n) == IF n < 0 THEN -n ELSE n

RECURSIVE GCD(_, _)
GCD(a, b) == IF b = 0 THEN a ELSE GCD(b, a % b)

Sign(n) == IF n > 0 THEN 1 ELSE IF n < 0 THEN -1 ELSE 0

\* n/d in lowest terms; d = 0 gives nan or a signed infinity
Rat(n, d) ==
  IF d = 0 THEN <<Sign(n), 0>>
  ELSE LET g == GCD(Abs(n), Abs(d))
           s == IF d < 0 THEN -1 ELSE 1
       IN  <<(s * n) \div g, (s * d) \div g>>

R(n) == <<n, 1>>
NaN == <<0, 0>>
IsFinite(a) == a[2] # 0

RAdd(a, b) == IF IsFinite(a) /\ IsFinite(b)
              THEN Rat(a[1] * b[2] + b[1] * a[2], a[2] * b[2]) ELSE NaN
RNeg(a) == <<-a[1], a[2]>>
RSub(a, b) == RAdd(a, RNeg(b))
RMul(a, b) == IF IsFinite(a) /\ IsFinite(b)
              THEN Rat(a[1] * b[1], a[2] * b[2]) ELSE NaN
\* float64 division: x/0 is nan or inf (a warning, not an exception)
RDiv(a, b) == IF IsFinite(a) /\ IsFinite(b)
              THEN Rat(a[1] * b[2], a[2] * b[1]) ELSE NaN
RLt(a, b) == a[1] * b[2] < b[1] * a[2]
RLe(a, b) == a[1] * b[2] <= b[1] * a[2]

\* Python int(): truncation toward zero
PyInt(a) == IF a[1] >= 0 THEN a[1] \div a[2] ELSE -((-a[1]) \div a[2])

(* ----------------------------- sequences ------------------------------ *)
\* s[k] with Python's negative indices counting from the end
At(s, k) == IF k < 0 THEN s[Len(s) + k + 1] ELSE s[k + 1]
Last(s) == s[Len(s)]

\* range(len(xin)) as numbers
Range(n) == [k \in 1..n |-> R(k - 1)]

RECURSIVE SumFromTo(_, _, _)
SumFromTo(y, a, b) == IF a > b THEN R(0) ELSE RAdd(At(y, a), SumFromTo(y, a + 1, b))

\* np.sum(y[a:b+1]): a slice silently stops at the end of the sequence
SumSlice(y, a, b) == SumFromTo(y, a, IF b > Len(y) - 1 THEN Len(y) - 1 ELSE b)

(* ------------------------------ np.interp ----------------------------- *)
\* the 0-based j with xp[j] <= x < xp[j+1]
Bracket(x, xp) == CHOOSE j \in 0..(Len(xp) - 2) : RLe(At(xp, j), x) /\ RLt(x, At(xp, j + 1))

\* faulty variant: the left node's value is not added back
Interp_NoOffset(x, xp, fp) ==
  IF RLt(x, At(xp, 0)) THEN At(fp, 0)
  ELSE IF RLe(Last(xp), x) THEN Last(fp)
  ELSE LET j == Bracket(x, xp)
           slope == RDiv(RSub(At(fp, j + 1), At(fp, j)), RSub(At(xp, j + 1), At(xp, j)))
       IN  RMul(slope, RSub(x, At(xp, j)))

\* np.interp(x, xp, fp) for one x: clamped to fp[0] / fp[-1] outside xp
Interp(x, xp, fp) ==
  IF RLt(x, At(xp, 0)) THEN At(fp, 0)
  ELSE IF RLe(Last(xp), x) THEN Last(fp)
  ELSE LET j == Bracket(x, xp)
           slope == RDiv(RSub(At(fp, j + 1), At(fp, j)), RSub(At(xp, j + 1), At(xp, j)))
       IN  RAdd(RMul(slope, RSub(x, At(xp, j))), At(fp, j))

InterpAll(xs, xp, fp) == [k \in 1..Len(xs) |-> Interp(xs[k], xp, fp)]

(* ---------------- regime selection (rebin1d, rebin_cube_1d) ----------- *)
\* in0 = int(np.interp(xout[0], xin, range(len(xin))))
In0(xo, xi) == PyInt(Interp(At(xo, 0), xi, Range(Len(xi))))

DxIn(xo, xi) == RSub(At(xi, In0(xo, xi) + 1), At(xi, In0(xo, xi)))
DxOut(xo) == RSub(At(xo, 1), At(xo, 0))

\* faulty variant: equal spacings sent to the interpolation regime
Regime_LessEq(xo, xi) ==
  IF In0(xo, xi) + 1 > Len(xi) - 1 \/ Len(xo) < 2 THEN "IndexError"
  ELSE IF RLe(DxOut(xo), DxIn(xo, xi)) THEN "interp"
  ELSE "box"

\* "IndexError" when xin[in0+1] or xout[1] is out of range, else
\* "interp" when dx_out < dx_in, else "box"
Regime(xo, xi) ==
  IF In0(xo, xi) + 1 > Len(xi) - 1 \/ Len(xo) < 2 THEN "IndexError"
  ELSE IF RLt(DxOut(xo), DxIn(xo, xi)) THEN "interp"
  ELSE "box"

\* in_i = np.interp(xout - dx_out*0.5, xin, range(len(xin)))
InI(xo, xi) ==
  InterpAll([k \in 1..Len(xo) |-> RSub(xo[k], RMul(DxOut(xo), Rat(1, 2)))],
            xi, Range(Len(xi)))

(* ---------------------- one output bin (box regime) ------------------- *)
Rstart(ini, i) == At(ini, i)

\* the last bin assumes the previous box size
Rstop(ini, i) ==
  IF i < Len(ini) - 1 THEN At(ini, i + 1)
  ELSE RAdd(At(ini, i), RSub(At(ini, i), At(ini, i - 1)))

Istart(ini, i) == PyInt(Rstart(ini, i))

\* istop = int(rstop), clamped to len(xin) - 1
Istop(ini, i, n) ==
  IF PyInt(Rstop(ini, i)) > n - 1 THEN n - 1 ELSE PyInt(Rstop(ini, i))

\* faulty variant: the sign of the start fraction slipped
Frac1_Negated(ini, i) == RSub(R(Istart(ini, i)), Rstart(ini, i))

Frac1(ini, i) == RSub(Rstart(ini, i), R(Istart(ini, i)))

\* faulty variant: the covered fraction of the last sample taken for the excluded one
Frac2_Covered(ini, i, n) == RSub(Rstop(ini, i), R(Istop(ini, i, n)))

Frac2(ini, i, n) == RSub(R(1), RSub(Rstop(ini, i), R(Istop(ini, i, n))))

\* the loop body's local variables for output bin i
BinLocals(ini, i, n) ==
  [rstart |-> Rstart(ini, i), rstop |-> Rstop(ini, i),
   istart |-> Istart(ini, i), istop |-> Istop(ini, i, n),
   frac1 |-> Frac1(ini, i), frac2 |-> Frac2(ini, i, n)]

NoLocals ==
  [rstart |-> R(0), rstop |-> R(0), istart |-> 0, istop |-> 0,
   frac1 |-> R(0), frac2 |-> R(0)]

\* y[istart] or y[istop] is out of range (the values are shorter than xin)
BinRaises(y, L) == L.istart > Len(y) - 1 \/ L.istop > Len(y) - 1

\* rebin1d's temp[i]: a separate branch when istart == istop
Bin1dValue(y, L) ==
  IF L.istart = L.istop
  THEN RDiv(RMul(RSub(RSub(R(1), L.frac1), L.frac2), At(y, L.istart)),
            RSub(L.rstop, L.rstart))
  ELSE RDiv(RSub(RSub(SumSlice(y, L.istart, L.istop),
                      RMul(L.frac1, At(y, L.istart))),
                 RMul(L.frac2, At(y, L.istop))),
            RSub(L.rstop, L.rstart))

\* faulty variant: the excluded fraction of the last sample is not subtracted
BinCubeValue_NoFrac2(y, L) ==
  RDiv(RSub(SumSlice(y, L.istart, L.istop), RMul(L.frac1, At(y, L.istart))),
       RSub(L.rstop, L.rstart))

\* rebin_cube_1d's new_cube[i, r, c] for the column y = cube[:, r, c]: one
\* formula for every bin
BinCubeValue(y, L) ==
  RDiv(RSub(RSub(SumSlice(y, L.istart, L.istop),
                 RMul(L.frac1, At(y, L.istart))),
            RMul(L.frac2, At(y, L.istop))),
       RSub(L.rstop, L.rstart))

\* the whole call rebin1d(xo, xi, y): what it returns or raises (in_i is an
\* array computed once, line 53: the concatenation makes it a sequence value)
Rebin1d(xo, xi, y) ==
  LET g == Regime(xo, xi)
      ini == InI(xo, xi) \o <<>>
      n == Len(xi)
  IN  IF g = "IndexError" THEN [kind |-> "raised", err |-> "IndexError", val |-> <<>>]
      ELSE IF g = "interp"
      THEN IF Len(y) # n
           THEN [kind |-> "raised", err |-> "ValueError", val |-> <<>>]
           ELSE [kind |-> "returned", err |-> "", val |-> InterpAll(xo, xi, y)]
      ELSE IF \E i \in 0..(Len(xo) - 1) : BinRaises(y, BinLocals(ini, i, n))
           THEN [kind |-> "raised", err |-> "IndexError", val |-> <<>>]
           ELSE [kind |-> "returned", err |-> "",
                 val |-> [k \in 1..Len(xo) |-> Bin1dValue(y, BinLocals(ini, k - 1, n))]]

\* the box loop of rebin_cube_1d(xo, xi, c) run from bin 0 to the last: the
\* cube it leaves in new_cube, pixel (r, q) of plane k
RebinCubeBox(xo, xi, c) ==
  LET ini == InI(xo, xi) \o <<>>
  IN  [k \in 1..Len(xo) |->
        [r \in 1..Len(c[1]) |->
          [q \in 1..Len(c[1][1]) |->
            BinCubeValue([m \in 1..Len(c) |-> c[m][r][q]],
                         BinLocals(ini, k - 1, Len(xi)))]]]

(* ------------------------------ frebin2d ------------------------------ *)
Transpose(M) == [c \in 1..Len(M[1]) |-> [r \in 1..Len(M) |-> M[r][c]]]

\* the loop body's local variables for output line i of a pass with box
\* ratio box over an axis whose last index is last
SpanLocals(i, box, last) ==
  LET rstart == RMul(R(i), box)
      rstop == RAdd(rstart, box)
      istart == PyInt(rstart)
      istop == IF PyInt(rstop) > last THEN last ELSE PyInt(rstop)
  IN  [rstart |-> rstart, rstop |-> rstop, istart |-> istart, istop |-> istop,
       frac1 |-> RSub(rstart, R(istart)),
       frac2 |-> RSub(R(1), RSub(rstop, R(istop)))]

\* faulty variant: the excluded fraction of the last line is not subtracted
SpanValue_NoFrac2(y, L) ==
  IF L.istart = L.istop
  THEN RMul(RSub(R(1), L.frac1), At(y, L.istart))
  ELSE RSub(SumSlice(y, L.istart, L.istop), RMul(L.frac1, At(y, L.istart)))

\* one element of an output line: y is the input along the binned axis;
\* no division by the box width here
SpanValue(y, L) ==
  IF L.istart = L.istop
  THEN RMul(RSub(RSub(R(1), L.frac1), L.frac2), At(y, L.istart))
  ELSE RSub(RSub(SumSlice(y, L.istart, L.istop), RMul(L.frac1, At(y, L.istart))),
            RMul(L.frac2, At(y, L.istop)))

\* y, x = array.shape
NRows(a) == Len(a)
NCols(a) == Len(a[1])

Xbox(a, sh) == Rat(NCols(a), sh[1])
Ybox(a, sh) == Rat(NRows(a), sh[2])

\* first loop: temp has shape (shape[1], x), then is transposed
RowPass(a, sh) ==
  Transpose([i \in 1..sh[2] |->
              [c \in 1..NCols(a) |->
                SpanValue([k \in 1..NRows(a) |-> a[k][c]],
                          SpanLocals(i - 1, Ybox(a, sh), NRows(a) - 1))]])

\* second loop over the transposed temp t: result has shape (shape[0], shape[1])
ColPass(t, a, sh) ==
  [i \in 1..sh[1] |->
    [j \in 1..sh[2] |->
      SpanValue([k \in 1..Len(t) |-> t[k][j]],
                SpanLocals(i - 1, Xbox(a, sh), NCols(a) - 1))]]

\* faulty variant: the result is returned without the transpose
FrebinReturn_NoTranspose(res, a, sh) ==
  [r \in 1..Len(res) |->
    [c \in 1..Len(res[r]) |-> RDiv(res[r][c], RMul(Xbox(a, sh), Ybox(a, sh)))]]

\* faulty variant: the result is returned without the division by the box area
FrebinReturn_NoNorm(res, a, sh) == Transpose(res)

\* return np.transpose(result)/float(xbox*ybox)
FrebinReturn(res, a, sh) ==
  LET tr == Transpose(res)
  IN  [r \in 1..Len(tr) |->
        [c \in 1..Len(tr[r]) |-> RDiv(tr[r][c], RMul(Xbox(a, sh), Ybox(a, sh)))]]

Frebin2d(a, sh) == FrebinReturn(ColPass(RowPass(a, sh), a, sh), a, sh)

(* ------------------------------- state -------------------------------- *)
VARIABLES
  op,        \* the function called
  pc,        \* "start", "loop", "cols", "returned", "raised"
  xout, xin, \* the grids (rebin1d, rebin_cube_1d)
  yin,       \* rebin1d's values
  cube,      \* rebin_cube_1d's cube[k][r][c]
  array,     \* frebin2d's array[row][col]
  shape,     \* frebin2d's requested shape
  regime,    \* "none", "interp", "box"
  in_i,      \* the bin edges in input-index units
  i,         \* the loop variable
  loc,       \* the loop body's locals after the last iteration
  temp,      \* rebin1d's temp, frebin2d's (transposed) temp
  new_cube,  \* rebin_cube_1d's new_cube
  result,    \* frebin2d's result
  ret,       \* the value returned
  err,       \* the exception raised
  done,      \* the output bins written, when the bins go in any order
  wloc       \* the locals of the loop body under way for each such bin

vars == <<op, pc, xout, xin, yin, cube, array, shape, regime, in_i, i, loc,
          temp, new_cube, result, ret, err, done, wloc>>

(* ------------------------------- inputs ------------------------------- *)
RECURSIVE SetToSeq(_)
SetToSeq(S) ==
  IF S = {} THEN <<>>
  ELSE LET m == CHOOSE x \in S : \A z \in S : x <= z
       IN  <<R(m)>> \o SetToSeq(S \ {m})

\* strictly increasing grids of 2..MaxLen integer coordinates in lo..hi
Grids(lo, hi) ==
  {SetToSeq(S) : S \in {T \in SUBSET (lo..hi) : Cardinality(T) \in 2..MaxLen}}

Values(n, hi) == {[k \in 1..n |-> R(f[k])] : f \in [1..n -> 0..hi]}

Planes(rows, cols) ==
  {[r \in 1..rows |-> [c \in 1..cols |-> R(f[r][c])]] :
     f \in [1..rows -> [1..cols -> 0..MaxVal]]}

\* cubes of two spatial pixels: the first pixel's spectrum is drawn from
\* the sequences of 0 and MaxVal, the second pixel's is its complement
Cubes(ext, rows, cols) ==
  {[k \in 1..ext |-> [r \in 1..rows |-> [c \in 1..cols |->
      IF r = 1 /\ c = 1 THEN R(f[k]) ELSE R(MaxVal - f[k])]]] :
     f \in [1..ext -> {0, MaxVal}]}

\* the concrete scenarios of the documentation
Scenario1Xin == <<R(0), R(1), R(2), R(3), R(4)>>
Scenario1Yin == <<R(1), R(2), R(3), R(4), R(5)>>
Scenario1Xout == <<R(0), R(2), R(4)>>
Scenario2Xin == <<R(0), R(1), R(2), R(3)>>
Scenario2Yin == <<R(0), R(10), R(20), R(30)>>
Scenario2Xout == <<R(0), Rat(1, 2), R(1), Rat(3, 2)>>
Scenario3Array == [r \in 1..4 |-> [c \in 1..4 |-> R(1)]]
Scenario3Shape == <<2, 2>>
Scenario4Cube == [k \in 1..4 |-> [r \in 1..2 |-> [c \in 1..2 |-> R(k)]]]

Blank ==
  /\ pc = "start" /\ regime = "none" /\ in_i = <<>> /\ i = 0 /\ loc = NoLocals
  /\ temp = <<>> /\ new_cube = <<>> /\ result = <<>> /\ ret = <<>> /\ err = ""
  /\ done = {} /\ wloc = <<>>

Init1d ==
  /\ op = "rebin1d"
  /\ \/ /\ xin \in Grids(0, MaxCoord)
        /\ xout \in Grids(0, MaxCoord + 1)
        /\ yin \in Values(Len(xin), MaxVal)
     \/ xin = Scenario1Xin /\ xout = Scenario1Xout /\ yin = Scenario1Yin
     \/ xin = Scenario2Xin /\ xout = Scenario2Xout /\ yin = Scenario2Yin
  /\ cube = <<>> /\ array = <<>> /\ shape = <<>>

InitCube ==
  /\ op = "rebin_cube_1d"
  /\ \/ /\ xin \in Grids(0, MaxCoord)
        /\ xout \in Grids(0, MaxCoord + 1)
        /\ \E ext \in (Len(xin) - 1)..(Len(xin) + 1), sp \in {<<1, 2>>, <<2, 1>>} :
             cube \in Cubes(ext, sp[1], sp[2])
     \/ xin = Scenario1Xin /\ xout = Scenario1Xout /\ cube = Scenario4Cube
  /\ yin = <<>> /\ array = <<>> /\ shape = <<>>

Init2d ==
  /\ op = "frebin2d"
  /\ \/ /\ \E rows \in 1..MaxDim, cols \in 1..MaxDim :
             rows * cols <= MaxPix /\ array \in Planes(rows, cols)
        /\ shape \in (1..MaxDim) \X (1..MaxDim)
     \/ array = Scenario3Array /\ shape = Scenario3Shape
  /\ xin = <<>> /\ xout = <<>> /\ yin = <<>> /\ cube = <<>>

Init == (Init1d \/ InitCube \/ Init2d) /\ Blank

(* ------------------------------ rebin1d ------------------------------- *)
Zeros(n) == [k \in 1..n |-> R(0)]

Raise(e) ==
  /\ pc' = "raised" /\ err' = e
  /\ UNCHANGED <<regime, in_i, i, loc, temp, new_cube, result, ret>>

\* lines 39-53: regime selection; the interpolation regime returns at once
Rebin1dSelect ==
  /\ op = "rebin1d" /\ pc = "start"
  /\ LET g == Regime(xout, xin)
     IN  IF g = "IndexError" THEN Raise("IndexError")
         ELSE IF g = "interp"
         THEN IF Len(yin) # Len(xin) THEN Raise("ValueError")
              ELSE /\ regime' = "interp" /\ pc' = "returned"
                   /\ ret' = InterpAll(xout, xin, yin)
                   /\ UNCHANGED <<in_i, i, loc, temp, new_cube, result, err>>
         ELSE /\ regime' = "box" /\ pc' = "loop"
              /\ temp' = Zeros(Len(xout))
              /\ in_i' = InI(xout, xin)
              /\ i' = 0
              /\ UNCHANGED <<loc, new_cube, result, ret, err>>
  /\ UNCHANGED <<done, wloc, op, xout, xin, yin, cube, array, shape>>

\* lines 55-77: one iteration of the loop on output values
Rebin1dBin ==
  /\ op = "rebin1d" /\ pc = "loop" /\ i < Len(xout)
  /\ LET L == BinLocals(in_i, i, Len(xin))
     IN  /\ loc' = L
         /\ IF BinRaises(yin, L)
            THEN /\ pc' = "raised" /\ err' = "IndexError"
                 /\ UNCHANGED <<i, temp>>
            ELSE /\ temp' = [temp EXCEPT ![i + 1] = Bin1dValue(yin, L)]
                 /\ i' = i + 1
                 /\ UNCHANGED <<pc, err>>
  /\ UNCHANGED <<done, wloc, op, xout, xin, yin, cube, array, shape, regime, in_i,
                 new_cube, result, ret>>

\* line 79: return np.transpose(temp), the same 1D array
Rebin1dReturn ==
  /\ op = "rebin1d" /\ pc = "loop" /\ i = Len(xout)
  /\ ret' = temp /\ pc' = "returned"
  /\ UNCHANGED <<done, wloc, op, xout, xin, yin, cube, array, shape, regime, in_i, i, loc,
                 temp, new_cube, result, err>>

(* ---------------------------- rebin_cube_1d --------------------------- *)
CubeRows(c) == Len(c[1])
CubeCols(c) == Len(c[1][1])
Column(c, r, q) == [k \in 1..Len(c) |-> c[k][r][q]]

\* faulty variant: the output cube allocated with the input's spectral length
ZeroCube_InputLen(xo, c) ==
  [k \in 1..Len(c) |-> [r \in 1..CubeRows(c) |-> [q \in 1..CubeCols(c) |-> R(0)]]]

\* np.zeros((len(xout), cube.shape[1], cube.shape[2]))
ZeroCube(xo, c) ==
  [k \in 1..Len(xo) |-> [r \in 1..CubeRows(c) |-> [q \in 1..CubeCols(c) |-> R(0)]]]

\* lines 103-105: every spatial pixel interpolated on its own
InterpCube(xo, xi, c) ==
  [k \in 1..Len(xo) |->
    [r \in 1..CubeRows(c) |->
      [q \in 1..CubeCols(c) |-> Interp(xo[k], xi, Column(c, r, q))]]]

\* line 131: the output plane of one bin
BinPlane(c, L) ==
  [r \in 1..CubeRows(c) |->
    [q \in 1..CubeCols(c) |-> BinCubeValue(Column(c, r, q), L)]]

\* lines 95-113
CubeSelect ==
  /\ op = "rebin_cube_1d" /\ pc = "start"
  /\ LET g == Regime(xout, xin)
     IN  IF g = "IndexError" THEN Raise("IndexError")
         ELSE IF g = "interp"
         THEN IF Len(cube) # Len(xin)
              THEN /\ pc' = "raised" /\ err' = "ValueError"
                   /\ regime' = "interp"
                   /\ new_cube' = ZeroCube(xout, cube)
                   /\ UNCHANGED <<in_i, i, loc, temp, result, ret>>
              ELSE /\ regime' = "interp" /\ pc' = "returned"
                   /\ new_cube' = InterpCube(xout, xin, cube)
                   /\ ret' = new_cube'
                   /\ UNCHANGED <<in_i, i, loc, temp, result, err>>
         ELSE /\ regime' = "box" /\ pc' = "loop"
              /\ new_cube' = ZeroCube(xout, cube)
              /\ in_i' = InI(xout, xin)
              /\ i' = 0
              /\ UNCHANGED <<loc, temp, result, ret, err>>
  /\ UNCHANGED <<done, wloc, op, xout, xin, yin, cube, array, shape>>

\* lines 115-131: one iteration of the loop on output values
CubeBin ==
  /\ op = "rebin_cube_1d" /\ pc = "loop" /\ i < Len(xout)
  /\ LET L == BinLocals(in_i, i, Len(xin))
     IN  /\ loc' = L
         /\ IF L.istart > Len(cube) - 1 \/ L.istop > Len(cube) - 1
            THEN /\ pc' = "raised" /\ err' = "IndexError"
                 /\ UNCHANGED <<i, new_cube>>
            ELSE /\ new_cube' = [new_cube EXCEPT ![i + 1] = BinPlane(cube, L)]
                 /\ i' = i + 1
                 /\ UNCHANGED <<pc, err>>
  /\ UNCHANGED <<done, wloc, op, xout, xin, yin, cube, array, shape, regime, in_i,
                 temp, result, ret>>

\* line 134
CubeReturn ==
  /\ op = "rebin_cube_1d" /\ pc = "loop" /\ i = Len(xout)
  /\ ret' = new_cube /\ pc' = "returned"
  /\ UNCHANGED <<done, wloc, op, xout, xin, yin, cube, array, shape, regime, in_i, i, loc,
                 temp, new_cube, result, err>>

(* ------------------------------ frebin2d ------------------------------ *)
\* lines 150-184: the pass over the output image lines, then the transpose
FrebinRows ==
  /\ op = "frebin2d" /\ pc = "start"
  /\ temp' = RowPass(array, shape)
  /\ pc' = "cols"
  /\ UNCHANGED <<done, wloc, op, xout, xin, yin, cube, array, shape, regime, in_i, i, loc,
                 new_cube, result, ret, err>>

\* lines 187-209: the pass over the output image samples, then the return
FrebinCols ==
  /\ op = "frebin2d" /\ pc = "cols"
  /\ result' = ColPass(temp, array, shape)
  /\ ret' = FrebinReturn(result', array, shape)
  /\ pc' = "returned"
  /\ UNCHANGED <<done, wloc, op, xout, xin, yin, cube, array, shape, regime, in_i, i, loc,
                 temp, new_cube, err>>

Next ==
  \/ Rebin1dSelect \/ Rebin1dBin \/ Rebin1dReturn
  \/ CubeSelect \/ CubeBin \/ CubeReturn
  \/ FrebinRows \/ FrebinCols

Spec == Init /\ [][Next]_vars

(* ------------- the box loops with the bins in any order --------------- *)
\* The loop bodies (lines 56-77 and 116-131) run once for every output bin,
\* in any order and interleaved: the body of bin b first assigns its locals
\* (wloc[b]), later writes its output slot.

\* values that tell the input samples apart
Ramp(n) == [k \in 1..n |-> R(k)]
RampCube(n) == [k \in 1..n |-> <<<<R(k), R(n + 1 - k)>>>>]

InitAnyOrder ==
  /\ xin \in Grids(0, MaxCoord)
  /\ xout \in Grids(0, MaxCoord + 1)
  /\ \/ op = "rebin1d" /\ yin = Ramp(Len(xin)) /\ cube = <<>>
     \/ op = "rebin_cube_1d" /\ cube = RampCube(Len(xin)) /\ yin = <<>>
  /\ array = <<>> /\ shape = <<>>
  /\ Blank

\* faulty variant: rstart taken over from the rstop of the body run before
BodyLocals_Carried(b) ==
  LET L == BinLocals(in_i, b, Len(xin))
  IN  IF wloc = <<>> THEN L
      ELSE [L EXCEPT !.rstart = loc.rstop, !.istart = PyInt(loc.rstop),
                     !.frac1 = RSub(loc.rstop, R(PyInt(loc.rstop)))]

\* lines 56-69 (116-129): the locals of the body of bin b
BodyLocals(b) == BinLocals(in_i, b, Len(xin))

BinStart(b) ==
  /\ pc = "loop" /\ b \notin DOMAIN wloc
  /\ wloc' = [k \in DOMAIN wloc \cup {b} |->
                IF k = b THEN BodyLocals(b) ELSE wloc[k]]
  /\ loc' = wloc'[b]
  /\ UNCHANGED <<op, pc, xout, xin, yin, cube, array, shape, regime, in_i, i,
                 temp, new_cube, result, ret, err, done>>

\* lines 71-77 (131): the body of bin b writes slot b
BinWrite(b) ==
  /\ pc = "loop" /\ b \in DOMAIN wloc /\ b \notin done
  /\ LET L == wloc[b]
     IN  IF op = "rebin1d"
         THEN IF BinRaises(yin, L)
              THEN /\ pc' = "raised" /\ err' = "IndexError"
                   /\ UNCHANGED <<temp, new_cube, done>>
              ELSE /\ temp' = [temp EXCEPT ![b + 1] = Bin1dValue(yin, L)]
                   /\ done' = done \cup {b}
                   /\ UNCHANGED <<pc, err, new_cube>>
         ELSE IF L.istart > Len(cube) - 1 \/ L.istop > Len(cube) - 1
              THEN /\ pc' = "raised" /\ err' = "IndexError"
                   /\ UNCHANGED <<temp, new_cube, done>>
              ELSE /\ new_cube' = [new_cube EXCEPT ![b + 1] = BinPlane(cube, L)]
                   /\ done' = done \cup {b}
                   /\ UNCHANGED <<pc, err, temp>>
  /\ UNCHANGED <<op, xout, xin, yin, cube, array, shape, regime, in_i, i, loc,
                 result, ret, wloc>>

AnyOrderStart == \E b \in 0..(Len(xout) - 1) : BinStart(b)

AnyOrderWrite == \E b \in 0..(Len(xout) - 1) : BinWrite(b)

\* lines 79 and 134, once every bin is written
AnyOrderReturn ==
  /\ pc = "loop" /\ done = 0..(Len(xout) - 1)
  /\ ret' = IF op = "rebin1d" THEN temp ELSE new_cube
  /\ pc' = "returned"
  /\ UNCHANGED <<op, xout, xin, yin, cube, array, shape, regime, in_i, i, loc,
                 temp, new_cube, result, err, done, wloc>>

NextAnyOrder ==
  \/ Rebin1dSelect \/ CubeSelect
  \/ AnyOrderStart \/ AnyOrderWrite \/ AnyOrderReturn

SpecAnyOrder == InitAnyOrder /\ [][NextAnyOrder]_vars

(* ============================== claims ================================ *)
RECURSIVE SumSeq(_)
SumSeq(q) == IF q = <<>> THEN R(0) ELSE RAdd(Head(q), SumSeq(Tail(q)))

RMin(a, b) == IF RLe(a, b) THEN a ELSE b
RMax(a, b) == IF RLe(a, b) THEN b ELSE a

\* the length of the intersection of [a, b] and [c, d]
Overlap(a, b, c, d) == RMax(R(0), RSub(RMin(b, d), RMax(a, c)))

Returned1dBox == op = "rebin1d" /\ pc = "returned" /\ regime = "box"
AllFinite(q) == \A k \in 1..Len(q) : IsFinite(q[k])

(* C1: rebin1d(x, x, y) returns y unchanged, element for element, for every
   strictly increasing grid x of length >= 2.  The code does not do this:
   on its own grid it takes the box regime and averages neighbouring
   samples. *)
C1_Identity == (op = "rebin1d" /\ pc = "returned" /\ xout = xin) => ret = yin

(* C2 as stated, in coordinate units: the sum of output value times output
   bin width (the spacing of the output bin edges xout[i] - dx_out/2, the
   last bin as wide as the one before it) equals the sum of input value
   times the width of the part of the input bin inside the range the output
   bins cover; the input bin of sample k is read either as
   [xin[k], xin[k+1]) or as centred on xin[k]. *)
OutWidth(k) ==
  IF k < Len(xout) THEN RSub(xout[k + 1], xout[k])
  ELSE RSub(xout[k], xout[k - 1])
CoverLo == RSub(xout[1], RMul(DxOut(xout), Rat(1, 2)))
CoverHi == RAdd(RSub(Last(xout), RMul(DxOut(xout), Rat(1, 2))), OutWidth(Len(xout)))
InWidth(k) ==
  IF k < Len(xin) THEN RSub(xin[k + 1], xin[k]) ELSE RSub(xin[k], xin[k - 1])
InWidthLeft(k) == IF k > 1 THEN RSub(xin[k], xin[k - 1]) ELSE RSub(xin[2], xin[1])
CoordFluxOut == SumSeq([k \in 1..Len(xout) |-> RMul(ret[k], OutWidth(k))])
CoordFluxInEdge ==
  SumSeq([k \in 1..Len(xin) |->
    RMul(yin[k], Overlap(CoverLo, CoverHi, xin[k], RAdd(xin[k], InWidth(k))))])
CoordFluxInCentred ==
  SumSeq([k \in 1..Len(xin) |->
    RMul(yin[k], Overlap(CoverLo, CoverHi,
                         RSub(xin[k], RMul(InWidthLeft(k), Rat(1, 2))),
                         RAdd(xin[k], RMul(InWidth(k), Rat(1, 2)))))])
C2_CoordFlux ==
  (Returned1dBox /\ AllFinite(ret)) =>
    (CoordFluxOut = CoordFluxInEdge \/ CoordFluxOut = CoordFluxInCentred)

(* C2 amended, in input-index units: the sum over the output bins of
   non-zero width of output value times bin width rstop - rstart equals the
   sum of input value times the length of the part of [k, k+1) (for the last
   sample: of [len(xin)-1, infinity)) inside [in_i[0], rstop of the last
   bin]. *)
BinWidth(k) == RSub(Rstop(in_i, k - 1), Rstart(in_i, k - 1))
IdxFluxOut ==
  SumSeq([k \in 1..Len(xout) |->
    IF BinWidth(k) = R(0) THEN R(0) ELSE RMul(ret[k], BinWidth(k))])
IdxFluxIn ==
  LET a == in_i[1]
      b == Rstop(in_i, Len(in_i) - 1)
      n == Len(xin)
  IN  SumSeq([k \in 1..n |->
        RMul(yin[k], Overlap(a, b, R(k - 1), IF k = n THEN RMax(b, R(n)) ELSE R(k)))])
C2_IndexFlux == Returned1dBox => IdxFluxOut = IdxFluxIn

\* a returned box call of three bins on an input grid that is not uniform,
\* with a bin spanning several samples, a last bin reaching beyond the last
\* sample, and values that differ
C2_Witness ==
  /\ Returned1dBox /\ Len(xout) >= 3 /\ AllFinite(ret)
  /\ Len(xin) >= 3 /\ RSub(xin[2], xin[1]) # RSub(xin[3], xin[2])
  /\ \E k \in 1..Len(xout) : Istart(in_i, k - 1) + 1 < Istop(in_i, k - 1, Len(xin))
  /\ RLt(R(Len(xin) - 1), Rstop(in_i, Len(in_i) - 1))
  /\ \E k \in 1..Len(yin) : yin[k] # yin[1]
  /\ IdxFluxOut # R(0)

Returned2d == op = "frebin2d" /\ pc = "returned"
SumPlane(a) == SumSeq([r \in 1..Len(a) |-> SumSeq(a[r])])
Uniform(a, v) == \A r \in 1..Len(a) : \A c \in 1..Len(a[r]) : a[r][c] = v

(* C3 as stated: frebin2d(array, shape) returns an array whose first
   dimension is shape[0] and whose second is shape[1]. *)
C3_ShapeAsRequested ==
  Returned2d => (Len(ret) = shape[1] /\ \A r \in 1..Len(ret) : Len(ret[r]) = shape[2])

(* C3 amended: shape is given as (x, y) = (columns, rows), and the array
   returned has shape[1] rows and shape[0] columns: its first dimension is
   shape[1], its second shape[0]. *)
C3_ShapeTransposed ==
  Returned2d => (Len(ret) = shape[2] /\ \A r \in 1..Len(ret) : Len(ret[r]) = shape[1])

C3_Witness ==
  Returned2d /\ shape[1] # shape[2] /\ NRows(array) # NCols(array) /\ Len(ret) = shape[2]

(* C4 as stated: frebin2d(array, array.shape) returns the original array,
   square or not. *)
C4_NoOpOnArrayShape ==
  (Returned2d /\ shape = <<NRows(array), NCols(array)>>) => ret = array

(* C4 amended: with the shape given in the function's own (x, y) order,
   frebin2d(array, (array.shape[1], array.shape[0])) returns the original
   array, element for element and with the original shape; passing
   array.shape itself does so for square arrays. *)
C4_NoOpOnXYShape ==
  (Returned2d /\ shape = <<NCols(array), NRows(array)>>) => ret = array

C4_Witness ==
  /\ Returned2d /\ shape = <<NCols(array), NRows(array)>>
  /\ NCols(array) # NRows(array) /\ ~Uniform(array, array[1][1]) /\ ret = array

(* C5: the sum of the result times xbox*ybox equals the sum of the input,
   for every output shape; a uniform input gives a uniform result of the
   same value; the 4x4 array of ones resized to 2x2 gives all ones. *)
C5_TotalFlux ==
  Returned2d =>
    /\ RMul(SumPlane(ret), RMul(Xbox(array, shape), Ybox(array, shape))) = SumPlane(array)
    /\ Uniform(array, array[1][1]) => Uniform(ret, array[1][1])
    /\ (array = Scenario3Array /\ shape = Scenario3Shape) =>
         ret = <<<<R(1), R(1)>>, <<R(1), R(1)>>>>

\* a non-integer box ratio on one axis, up-sampling on the other, and an
\* input that is not uniform
C5_Witness ==
  /\ Returned2d /\ ~Uniform(array, array[1][1])
  /\ Xbox(array, shape)[2] # 1 /\ RLt(Ybox(array, shape), R(1))
  /\ SumPlane(array) # R(0)
  /\ RMul(SumPlane(ret), RMul(Xbox(array, shape), Ybox(array, shape))) = SumPlane(array)

ReturnedCube == op = "rebin_cube_1d" /\ pc = "returned"

\* the action steps of rebin1d end as the whole-call operator says
Rebin1dAgrees ==
  (op = "rebin1d" /\ pc \in {"returned", "raised"}) =>
    LET o == Rebin1d(xout, xin, yin)
    IN  o.kind = pc /\ o.err = err /\ (pc = "returned" => o.val = ret)

(* C6: for every spatial position (r, q), rebin_cube_1d(xout, xin, cube)
   [:, r, q] equals rebin1d(xout, xin, cube[:, r, q]), in both regimes and
   in the bins where istart == istop; a call that raises does so exactly
   when rebin1d raises on the pixel's spectrum, with the same exception. *)
C6_CubeMatches1d ==
  (op = "rebin_cube_1d" /\ pc \in {"returned", "raised"}) =>
    \A r \in 1..CubeRows(cube) : \A q \in 1..CubeCols(cube) :
      LET o == Rebin1d(xout, xin, Column(cube, r, q))
      IN  /\ o.kind = pc
          /\ o.err = err
          /\ pc = "returned" => o.val = [k \in 1..Len(ret) |-> ret[k][r][q]]

\* a returned box call with a bin inside one input sample (istart == istop),
\* cut on both sides, whose value is finite and not zero
C6_Witness ==
  /\ ReturnedCube /\ regime = "box" /\ Len(cube) = Len(xin)
  /\ \E k \in 1..Len(xout) :
       LET L == BinLocals(in_i, k - 1, Len(xin))
       IN  /\ L.istart = L.istop /\ L.frac1 # R(0) /\ L.frac2 # R(0)
           /\ IsFinite(ret[k][1][1]) /\ ret[k][1][1] # R(0)

\* the box loop of rebin_cube_1d ends as the whole-loop operator says
CubeBoxAgrees ==
  (ReturnedCube /\ regime = "box") => ret = RebinCubeBox(xout, xin, cube)

(* C7: in the interpolation regime every output coordinate equal to an input
   coordinate xin[j] yields exactly yin[j], and output coordinates outside
   the input range yield the nearest edge value; grid [0,1,2,3], values
   [0,10,20,30], output grid [0,0.5,1,1.5] gives [0,5,10,15]. *)
C7_InterpExact ==
  (op = "rebin1d" /\ pc = "returned" /\ regime = "interp") =>
    /\ \A k \in 1..Len(xout) :
         /\ \A j \in 1..Len(xin) : xout[k] = xin[j] => ret[k] = yin[j]
         /\ RLt(xout[k], xin[1]) => ret[k] = yin[1]
         /\ RLt(Last(xin), xout[k]) => ret[k] = Last(yin)
    /\ (xin = Scenario2Xin /\ xout = Scenario2Xout /\ yin = Scenario2Yin) =>
         ret = <<R(0), R(5), R(10), R(15)>>

\* an interpolating call with an output point on an inner input point of
\* non-zero value, and an output point right of the input grid
C7_Witness ==
  /\ op = "rebin1d" /\ pc = "returned" /\ regime = "interp"
  /\ \E k \in 1..Len(xout) : \E j \in 2..Len(xin) :
       xout[k] = xin[j] /\ yin[j] # R(0) /\ yin[j] # yin[1] /\ ret[k] = yin[j]
  /\ \E k \in 1..Len(xout) : RLt(Last(xin), xout[k])

(* C8: a call of rebin_cube_1d where len(xin) differs from the cube's
   first-axis extent fails and returns no result array.  The code has no
   such check: it returns a cube whenever the bins stay inside the cube. *)
C8_MismatchRejected ==
  (op = "rebin_cube_1d" /\ Len(xin) # Len(cube)) => pc # "returned"

(* C9: every call that returns, in both regimes: rebin1d returns a sequence
   of length len(xout); rebin_cube_1d returns a cube of shape
   (len(xout), cube.shape[1], cube.shape[2]). *)
C9_OutputLength ==
  /\ (op = "rebin1d" /\ pc = "returned") => Len(ret) = Len(xout)
  /\ ReturnedCube =>
       /\ Len(ret) = Len(xout)
       /\ \A k \in 1..Len(ret) :
            /\ Len(ret[k]) = CubeRows(cube)
            /\ \A r \in 1..Len(ret[k]) : Len(ret[k][r]) = CubeCols(cube)

\* a returned cube whose three extents and whose output length all differ
\* from one another where they can
C9_Witness ==
  /\ ReturnedCube /\ regime = "box"
  /\ Len(xout) # Len(xin) /\ Len(xout) # Len(cube)
  /\ CubeRows(cube) # CubeCols(cube)
  /\ Len(ret) = Len(xout) /\ IsFinite(ret[1][1][1])

(* C10: in the box regime, for every output bin of rebin1d and
   rebin_cube_1d, the weights of the input samples istart..istop (1 for each
   sample, minus frac1 on sample istart, minus frac2 on sample istop) sum to
   rstop - rstart, and the value written is the samples' sum under these
   weights divided by rstop - rstart. *)
Weight(L, k) ==
  RSub(RSub(R(1), IF k = L.istart THEN L.frac1 ELSE R(0)),
       IF k = L.istop THEN L.frac2 ELSE R(0))
WeightSum(L) == SumSeq([k \in 1..(L.istop - L.istart + 1) |-> Weight(L, L.istart + k - 1)])
WeightedValue(y, L) ==
  RDiv(SumSeq([k \in 1..(L.istop - L.istart + 1) |->
                RMul(Weight(L, L.istart + k - 1), At(y, L.istart + k - 1))]),
       RSub(L.rstop, L.rstart))
\* the loop body has run and written bin i - 1, whose locals loc holds
BinWritten == regime = "box" /\ i > 0 /\ pc # "raised"
C10_WeightPartition ==
  /\ (regime = "box" /\ (i > 0 \/ pc = "raised")) =>
       WeightSum(loc) = RSub(loc.rstop, loc.rstart)
  /\ (BinWritten /\ op = "rebin1d") => temp[i] = WeightedValue(yin, loc)
  /\ (BinWritten /\ op = "rebin_cube_1d") =>
       \A r \in 1..CubeRows(cube) : \A q \in 1..CubeCols(cube) :
         new_cube[i][r][q] = WeightedValue(Column(cube, r, q), loc)

\* the last bin of a cube call, its stop index extrapolated beyond the last
\* input sample and clamped, so that frac2 is negative and the last
\* sample's weight exceeds 1
C10_Witness ==
  /\ op = "rebin_cube_1d" /\ BinWritten /\ i = Len(xout)
  /\ PyInt(loc.rstop) > Len(xin) - 1 /\ loc.istop = Len(xin) - 1
  /\ RLt(loc.frac2, R(0)) /\ RLt(R(1), Weight(loc, loc.istop))
  /\ IsFinite(new_cube[i][1][1]) /\ new_cube[i][1][1] # R(0)

(* C11: rebin1d and rebin_cube_1d take the interpolation regime exactly
   when xout[1] - xout[0] is strictly less than xin[in0+1] - xin[in0], in0
   being the integer part of the input index interpolated at xout[0], and
   the box regime otherwise, equal spacings included; the decision follows
   from the two grids alone, whatever the values and the spatial pixel.
   The index in0 is stated here without the interpolation: the last input
   sample at or left of xout[0], sample 0 when xout[0] lies left of xin[0]. *)
SampleAtOrLeft(x, xi) ==
  IF RLt(x, xi[1]) THEN 0
  ELSE (CHOOSE k \in 1..Len(xi) :
          /\ RLe(xi[k], x)
          /\ \A m \in (k + 1)..Len(xi) : RLt(x, xi[m])) - 1
Selected == op \in {"rebin1d", "rebin_cube_1d"} /\ pc # "start"
C11_RegimeSelection ==
  Selected =>
    LET k0 == SampleAtOrLeft(xout[1], xin)
    IN  k0 + 1 <= Len(xin) - 1 =>
          IF RLt(RSub(xout[2], xout[1]), RSub(xin[k0 + 2], xin[k0 + 1]))
          THEN regime = "interp"
          ELSE regime = "box"

\* a cube call with equal input and output spacings at in0 on a non-uniform
\* input grid, returned from the box regime
C11_Witness ==
  /\ ReturnedCube /\ regime = "box"
  /\ RSub(xout[2], xout[1]) = DxIn(xout, xin)
  /\ In0(xout, xin) > 0
  /\ \E k \in 1..(Len(xin) - 1) : RSub(xin[k + 1], xin[k]) # DxIn(xout, xin)

(* C13: no division by zero in the box regime: for every call of rebin1d
   and rebin_cube_1d on strictly increasing grids of length >= 2 (the values
   as long as xin), output grids reaching left of xin[0] or right of xin[-1]
   included, every output bin has rstop - rstart > 0 and every value written
   is a finite number.  The code clamps two successive bin edges to the same
   index when both lie outside the input grid: the bin has width 0 and its
   value is 0/0. *)
ValuesMatchGrid ==
  \/ op = "rebin1d" /\ Len(yin) = Len(xin)
  \/ op = "rebin_cube_1d" /\ Len(cube) = Len(xin)
C13_NoZeroWidth ==
  (BinWritten /\ ValuesMatchGrid) =>
    /\ RLt(loc.rstart, loc.rstop)
    /\ op = "rebin1d" => IsFinite(temp[i])
    /\ op = "rebin_cube_1d" =>
         \A r \in 1..CubeRows(cube) : \A q \in 1..CubeCols(cube) :
           IsFinite(new_cube[i][r][q])

(* C14: the excluded fractions stay fractions: for every output bin of the
   box regime of rebin1d and rebin_cube_1d on strictly increasing grids, the
   last bin with its extrapolated rstop and clamped istop included,
   0 <= frac1 <= 1 and 0 <= frac2 <= 1, and every input sample of the bin has
   a weight between 0 and 1.  In the code the last bin's rstop can exceed
   len(xin) while istop is clamped to len(xin) - 1: frac2 is then negative
   and the last sample's weight exceeds 1. *)
InUnit(q) == RLe(R(0), q) /\ RLe(q, R(1))
C14_FractionsInUnit ==
  (BinWritten /\ ValuesMatchGrid) =>
    /\ InUnit(loc.frac1)
    /\ InUnit(loc.frac2)
    /\ \A k \in loc.istart..loc.istop : InUnit(Weight(loc, k))

(* C12: in the box regime the value written to output slot i of rebin1d
   and rebin_cube_1d depends on i, in_i and the input values only: with the
   output bins processed in any order, their bodies interleaved and each
   writing its own slot, every slot written holds the value the sequential
   loop gives it, the other slots are untouched, and the array returned is
   the sequential loop's. *)
Sequential == IF op = "rebin1d" THEN Rebin1d(xout, xin, yin).val
              ELSE RebinCubeBox(xout, xin, cube)
Working == IF op = "rebin1d" THEN temp ELSE new_cube
Untouched == IF op = "rebin1d" THEN Zeros(Len(xout)) ELSE ZeroCube(xout, cube)
C12_AnyOrderSameArray ==
  (regime = "box" /\ pc \in {"loop", "returned"}) =>
    /\ \A b \in 0..(Len(xout) - 1) :
         Working[b + 1] = IF b \in done THEN Sequential[b + 1]
                          ELSE Untouched[b + 1]
    /\ pc = "returned" => ret = Sequential

\* a cube returned after the body of bin 0 was the last to start, its three
\* planes finite and different from one another
C12_Witness ==
  /\ ReturnedCube /\ regime = "box" /\ Len(xout) >= 3
  /\ done = 0..(Len(xout) - 1)
  /\ loc = wloc[0] /\ loc # wloc[Len(xout) - 1]
  /\ \A k \in 1..Len(ret) : IsFinite(ret[k][1][1]) /\ IsFinite(ret[k][1][2])
  /\ ret[1] # ret[2] /\ ret[2] # ret[3] /\ ret[1] # ret[3]

====
